---- MODULE Spec2Model ----
(***************************************************************************)
(* Model of the LLM code-deployment service: app/main.py (task intake,     *)
(* repository publisher and updater, deployment watcher, evaluator         *)
(* notifier) and app/llm_generator_gemini.py (generation client, content   *)
(* extractor).                                                             *)
(*                                                                         *)
(* Texts and file contents are sequences of strings (a model response is a *)
(* sequence of one-character strings).  External collaborators (git, the   *)
(* hosting API, the model, the Pages site, the evaluator) answer           *)
(* nondeterministically.                                                   *)
(***************************************************************************)
EXTENDS Integers, Sequences, FiniteSets, TLC

(* ------------------------------ bounds -------------------------------- *)
\* number of requests the service receives in one behaviour
MaxTasks == 2
\* largest number of attachments of a Task
MaxAtt == 1

(* --------------------------- program constants ------------------------ *)
None == "<None>"
\* wait_for_pages(url, max_wait=240, interval=8), requests.get(url, timeout=10)
max_wait == 240
interval == 8
poll_timeout == 10
\* for _ in range(5): ... time.sleep(2)
PagesTries == 5
PagesSleep == 2
\* a retry schedule that lost its last delay
DelaysShort == <<1, 2, 4, 8>>
\* for delay in [1, 2, 4, 8, 16]
Delays == <<1, 2, 4, 8, 16>>
PAGES_WF_YML == <<"PAGES_WF_YML">>
DEFAULT_BRANCH == "main"

(* --------------------------- HTTP answers ----------------------------- *)
\* an answer of requests.get/post: a status, or an exception raised
Http(code, text) == [exc |-> FALSE, status_code |-> code, text |-> text]
Raised == [exc |-> TRUE, status_code |-> 0, text |-> <<>>]

(* ------------------------- character helpers -------------------------- *)
Whitespace == {" ", "\n", "\t"}
\* the characters of [a-zA-Z0-9.+-] that the modelled texts use
LangChars == {"a", "b", "c", "d", "e", "f", "g", "h", "i", "j", "k", "l", "m", "n",
              "o", "p", "q", "r", "s", "t", "u", "v", "w", "x", "y", "z",
              "H", "T", "M", "L", "2", "+", "-", "."}
\* str.lower() on one character
lower(c) == CASE c = "H" -> "h" [] c = "T" -> "t" [] c = "M" -> "m"
              [] c = "L" -> "l" [] OTHER -> c
str_lower(s) == [k \in 1..Len(s) |-> lower(s[k])]

\* str.strip(): leading and trailing whitespace removed
RECURSIVE lstrip(_)
lstrip(s) == IF s # <<>> /\ Head(s) \in Whitespace THEN lstrip(Tail(s)) ELSE s
RECURSIVE rstrip(_)
rstrip(s) == IF s # <<>> /\ s[Len(s)] \in Whitespace
             THEN rstrip(SubSeq(s, 1, Len(s) - 1)) ELSE s
\* a strip that forgets the trailing whitespace
strip_leading_only(s) == lstrip(s)
strip(s) == rstrip(lstrip(s))

\* sub in s
Contains(s, sub) ==
    \E k \in 1..(Len(s) - Len(sub) + 1) : SubSeq(s, k, k + Len(sub) - 1) = sub

(* --------------------------- content extractor ------------------------ *)
\* the backquote character (written as a word: the lexer rejects the bare character)
BQ == "<backquote>"
FenceAt(md, p) ==
    p + 2 <= Len(md) /\ md[p] = BQ /\ md[p + 1] = BQ /\ md[p + 2] = BQ

\* end of the run of [a-zA-Z0-9.+-]* that starts at p (first index after it)
RECURSIVE LangEnd(_, _)
LangEnd(md, p) ==
    IF p <= Len(md) /\ md[p] \in LangChars THEN LangEnd(md, p + 1) ELSE p

\* first index >= p where a closing fence starts, 0 when there is none
RECURSIVE NextFence(_, _)
NextFence(md, p) ==
    IF p + 2 > Len(md) THEN 0
    ELSE IF FenceAt(md, p) THEN p ELSE NextFence(md, p + 1)

\* re.findall of line 13 from index p on: a match is a fence, a run of language
\* characters, a newline, the shortest content (newlines included) and a fence;
\* the result is the sequence of [lang, content] of the non-overlapping matches
RECURSIVE findall(_, _)
findall(md, p) ==
    IF p > Len(md) THEN <<>>
    ELSE IF ~FenceAt(md, p) THEN findall(md, p + 1)
    ELSE LET q == LangEnd(md, p + 3)
             e == IF q <= Len(md) /\ md[q] = "\n" THEN NextFence(md, q + 1) ELSE 0
         IN  IF e = 0 THEN findall(md, p + 1)
             ELSE <<[lang |-> SubSeq(md, p + 3, q - 1),
                     content |-> SubSeq(md, q + 1, e - 1)]>>
                  \o findall(md, e + 3)

\* a dict that keeps insertion order: a sequence of [name, content]
DictKeys(d) == {d[k].name : k \in 1..Len(d)}
DictSet(d, name, content) ==
    IF name \in DictKeys(d)
    THEN [k \in 1..Len(d) |->
            IF d[k].name = name THEN [name |-> name, content |-> content] ELSE d[k]]
    ELSE Append(d, [name |-> name, content |-> content])

\* a naming without the counter: every HTML segment is written to index.html
HtmlNameIndex(n) == "index.html"
HtmlName(n) == IF n = 1 THEN "index.html" ELSE "page" \o ToString(n) \o ".html"
JsName(n)   == IF n = 1 THEN "script.js" ELSE "script" \o ToString(n) \o ".js"
CssName(n)  == IF n = 1 THEN "style.css" ELSE "style" \o ToString(n) \o ".css"

IsHtml(lang) == Contains(str_lower(lang), <<"h", "t", "m", "l">>)
IsJs(lang) ==
    LET l == str_lower(lang)
    IN  \/ Contains(l, <<"j", "a", "v", "a", "s", "c", "r", "i", "p", "t">>)
        \/ l \in {<<"j", "s">>, <<"j", "s", "x">>}
IsCss(lang) == Contains(str_lower(lang), <<"c", "s", "s">>)

\* the loop over blocks, lines 15-29: st = [files, html_count, js_count, css_count]
RECURSIVE ExtractLoop(_, _)
ExtractLoop(blocks, st) ==
    IF blocks = <<>> THEN st.files
    ELSE LET b == Head(blocks)
             c == strip(b.content)
         IN  IF IsHtml(b.lang)
             THEN ExtractLoop(Tail(blocks),
                    [st EXCEPT !.html_count = @ + 1,
                               !.files = DictSet(@, HtmlName(st.html_count + 1), c)])
             ELSE IF IsJs(b.lang)
             THEN ExtractLoop(Tail(blocks),
                    [st EXCEPT !.js_count = @ + 1,
                               !.files = DictSet(@, JsName(st.js_count + 1), c)])
             ELSE IF IsCss(b.lang)
             THEN ExtractLoop(Tail(blocks),
                    [st EXCEPT !.css_count = @ + 1,
                               !.files = DictSet(@, CssName(st.css_count + 1), c)])
             ELSE ExtractLoop(Tail(blocks), st)

_extract_files_from_markdown(md) ==
    LET files == ExtractLoop(findall(md, 1),
                   [files |-> <<>>, html_count |-> 0, js_count |-> 0, css_count |-> 0])
    IN  IF files = <<>> THEN <<[name |-> "index.html", content |-> strip(md)]>>
        ELSE files

(* --------------------------- configuration ---------------------------- *)
GITHUB_USER == "user"
GITHUB_TOKEN == "ghp_token"
TheSecret == "s3cret"

_token_remote(repo) ==
    <<"https://", GITHUB_USER, ":", GITHUB_TOKEN, "@github.com/", GITHUB_USER, "/", repo, ".git">>
_public_remote(repo) == <<"https://github.com/", GITHUB_USER, "/", repo, ".git">>
PagesUrl(repo) == <<"https://", GITHUB_USER, ".github.io/", repo, "/">>

(* ------------------------------ inputs -------------------------------- *)
TaskIds == {"t1"}
Rounds == {0, 1, 2}
Secrets == {TheSecret, "wrong", ""}
Nonces == {"n1"}
\* an attachment url is a data: URI or a remote URL
Attachments == [name : {"a.csv"}, url : {"data:", "https:"}]
AttachmentLists == UNION {[1..n -> Attachments] : n \in 0..MaxAtt}
Tasks == [email : {"a@b.c"}, secret : Secrets, task : TaskIds, round : Rounds,
          nonce : Nonces, brief : {"todo list"}, evaluation_url : {"https://eval/notify"},
          attachments : AttachmentLists]
NoTask == [round |-> -1]

\* model responses (resp.text), as characters
FENCE == <<BQ, BQ, BQ>>
BlockHtml == FENCE \o <<"h", "t", "m", "l", "\n", "<", "p", ">", "\n">> \o FENCE
BlockCss == FENCE \o <<"c", "s", "s", "\n", "b", "{", "}", "\n">> \o FENCE
BlockJs == FENCE \o <<"j", "s", "\n", "f", "(", ")", "\n">> \o FENCE
TextSite == BlockHtml \o <<"\n">> \o BlockCss \o <<"\n">> \o BlockJs
TextCssOnly == <<"s", "e", "e", ":", "\n">> \o BlockCss
TextPlain == <<" ", "<", "p", ">", "\n">>
TextBlank == <<" ", "\n">>
ModelTexts == {TextSite, TextCssOnly, TextPlain, TextBlank}
\* what model.generate_content does: raises, or returns a response with a text
ModelAnswers == {[exc |-> TRUE, text |-> <<>>]} \cup {[exc |-> FALSE, text |-> t] : t \in ModelTexts}

(* --------------------------- working directory ------------------------ *)
\* a directory is a function from file name to content
EmptyDir == <<>>
WriteFile(dir, name, content) == (name :> content) @@ dir
Exists(dir, name) == name \in DOMAIN dir

RECURSIVE WriteAll(_, _)
WriteAll(dir, files) ==
    IF files = <<>> THEN dir
    ELSE WriteAll(WriteFile(dir, Head(files).name, Head(files).content), Tail(files))

\* a promotion of the last inserted file in place of the first
EnsureIndexLast(files) ==
    IF "index.html" \notin DictKeys(files)
    THEN DictSet(files, "index.html", files[Len(files)].content)
    ELSE files
\* lines 122-123: the first inserted file is duplicated as index.html
EnsureIndex(files) ==
    IF "index.html" \notin DictKeys(files)
    THEN DictSet(files, "index.html", files[1].content)
    ELSE files

\* generate_app_with_gemini(brief, work_dir, attachment_names): the outcome for
\* a given credential and a given answer of the model:
\* [raised, called (the model was called), dir (work_dir afterwards)]
generate_app_with_gemini(api_key, answer, dir) ==
    IF api_key = None
    THEN [raised |-> TRUE, called |-> FALSE, dir |-> dir]
    ELSE IF answer.exc
    THEN [raised |-> TRUE, called |-> TRUE, dir |-> dir]
    ELSE LET text == strip(answer.text)
         IN  IF text = <<>>
             THEN [raised |-> TRUE, called |-> TRUE, dir |-> dir]
             ELSE [raised |-> FALSE, called |-> TRUE,
                   dir |-> WriteAll(dir, EnsureIndex(_extract_files_from_markdown(text)))]

LICENSE_TEXT == <<"MIT License\n\nGenerated automatically.">>
ReadmeAuto(t) == <<"# Auto App for ", t.task, "\n\nBrief: ", t.brief, "\n">>
ReadmeInit == <<"# Auto-generated App\n\nSee LICENSE.">>
ReadmeUpdated(t) == <<"# Updated Auto App - ", t.task, "Round:", ToString(t.round), "Brief:", t.brief>>
PAGES_YML_PATH == ".github/workflows/pages.yml"

(* ------------------------------ git state ----------------------------- *)
NoCommit == [sha |-> 0, tree |-> EmptyDir]
NoGit == [origin |-> <<>>, head |-> NoCommit]
\* a repository on the hosting platform
NoRepo == [exists |-> FALSE, head |-> NoCommit]
EmptyRepo == [exists |-> TRUE, head |-> NoCommit]

(* ------------------------------- state -------------------------------- *)
VARIABLES
    cfg,      \* the environment: [SHARED_SECRET, GEMINI_API_KEY]
    remote,   \* the hosting platform: repository name -> [exists, head]
    tmpdirs,  \* the temporary directories that exist on disk (by request number)
    nreq,     \* number of requests received so far
    task,     \* the Task of the request being handled
    pc,       \* position of the handler of that request
    wd,       \* the files of the working directory of that request
    git,      \* the git state of that working directory: [origin, head]
    loc,      \* locals of the handler: [i, tmp, slept, repo_url, sha, pages_url]
    calls,    \* the external calls the handler has made for this request, in
              \* order, each with its result: [cmd, exc, status_code, text]
    resp,     \* the response to this request: [status, error, ...]
    jobs,     \* the background jobs (notify_evaluator), in the order of scheduling
    ex        \* a call of the extractor or of the Generation Client on its own:
              \* [segs, md, stage, files, dir, gen], used by SpecExtract only

vars == <<cfg, remote, tmpdirs, nreq, task, pc, wd, git, loc, calls, resp, jobs, ex>>
world == <<ex, cfg, remote, tmpdirs, nreq, jobs>>
handler == <<task, pc, wd, git, loc, calls, resp>>

NoResp == [status |-> 0, error |-> ""]
\* no call of the extractor on its own
NoEx == [segs |-> <<>>, md |-> <<>>, stage |-> "none", files |-> <<>>, dir |-> EmptyDir,
         gen |-> [raised |-> FALSE, called |-> FALSE, dir |-> EmptyDir]]
NoLoc == [i |-> 0, tmp |-> 0, slept |-> 0, repo_url |-> <<>>, sha |-> 0, pages_url |-> <<>>]

\* a tree an earlier round-1 publication of the site left in the repository
PublishedTree ==
    LET t == [task |-> "t1", brief |-> "todo list"]
        d == generate_app_with_gemini("key", [exc |-> FALSE, text |-> TextSite], EmptyDir).dir
    IN  WriteFile(WriteFile(WriteFile(d, "README.md", ReadmeAuto(t)),
                            "LICENSE", LICENSE_TEXT), PAGES_YML_PATH, PAGES_WF_YML)
RepoStates ==
    {NoRepo, EmptyRepo, [exists |-> TRUE, head |-> [sha |-> 100, tree |-> PublishedTree]]}

Init ==
    /\ cfg \in [SHARED_SECRET : {None, "", TheSecret}, GEMINI_API_KEY : {None, "key"}]
    /\ remote \in [TaskIds -> RepoStates]
    /\ tmpdirs = {}
    /\ nreq = 0
    /\ task = NoTask
    /\ pc = "idle"
    /\ wd = EmptyDir
    /\ git = NoGit
    /\ loc = NoLoc
    /\ calls = <<>>
    /\ resp = NoResp
    /\ jobs = <<>>
    /\ ex = NoEx

\* the result of a subprocess (its return code) and of an HTTP call, as logged
RunResult(cmd, rc) == [cmd |-> cmd, exc |-> FALSE, status_code |-> rc, text |-> <<>>]
HttpResult(cmd, r) == [cmd |-> cmd, exc |-> r.exc, status_code |-> r.status_code, text |-> r.text]
ReturnCodes == {0, 1}

\* a run that never looks at the return code
run_raises_never(returncode) == FALSE
\* run(cmd, cwd), lines 48-51: a nonzero return code raises RuntimeError
run_raises(returncode) == returncode # 0

\* an exception leaves the handler: the framework answers 500
Abort(cause) ==
    /\ resp' = [status |-> 500, error |-> cause]
    /\ pc' = "responded"

(* ------------------------------ Task Intake --------------------------- *)
Finished(req) ==
    [req |-> req, evaluation_url |-> "", payload |-> <<>>, pc |-> "finished",
     elapsed |-> 0, polled |-> 0, ready |-> FALSE, attempts |-> 0, slept |-> <<>>,
     sent |-> {}, last |-> 0, all503 |-> FALSE]

\* a request arrives: POST /ingest with body t.  Requests are handled one at a
\* time (the handler is a coroutine that never awaits), and the caller sends its
\* next request when the notification job of the previous one has ended: a job
\* and a later handler share no state, so their interleavings add nothing
Receive(t) ==
    /\ pc = "idle"
    /\ \A j \in 1..Len(jobs) : jobs[j].pc = "finished"
    /\ nreq < MaxTasks
    /\ nreq' = nreq + 1
    /\ task' = t
    /\ pc' = "verify_secret"
    /\ wd' = EmptyDir
    /\ git' = NoGit
    /\ loc' = NoLoc
    /\ calls' = <<>>
    /\ resp' = NoResp
    /\ UNCHANGED <<ex, cfg, remote, tmpdirs, jobs>>

\* verify_secret with "and" for "or": a configured secret no longer guards
verify_secret_and(SHARED_SECRET, s) ==
    SHARED_SECRET \in {None, ""} /\ s # SHARED_SECRET

\* verify_secret(s), lines 36-38: raises HTTPException(401) (TRUE) or returns
verify_secret(SHARED_SECRET, s) ==
    SHARED_SECRET \in {None, ""} \/ s # SHARED_SECRET

\* a dispatch that takes every round up to 1 for a first round
DispatchUpToOne(round) == IF round <= 1 THEN "generate_llm_app" ELSE "update_llm_app"
\* lines 264-268: the step a Task of this round goes to
Dispatch(round) == IF round = 1 THEN "generate_llm_app" ELSE "update_llm_app"

\* ingest, lines 262-264
ingest_verify_secret ==
    /\ pc = "verify_secret"
    /\ IF verify_secret(cfg.SHARED_SECRET, task.secret)
       THEN /\ resp' = [status |-> 401, error |-> "Invalid secret"]
            /\ pc' = "responded"
       ELSE /\ resp' = resp
            /\ pc' = Dispatch(task.round)
    /\ UNCHANGED <<world, task, wd, git, loc, calls>>

(* ---------------------------- generate_llm_app ------------------------ *)
\* line 167: tempfile.mkdtemp
generate_llm_app_mkdtemp ==
    /\ pc = "generate_llm_app"
    /\ tmpdirs' = tmpdirs \cup {nreq}
    /\ loc' = [loc EXCEPT !.tmp = nreq, !.i = 1]
    /\ wd' = EmptyDir
    /\ pc' = "g_attachments"
    /\ UNCHANGED <<ex, cfg, remote, nreq, jobs, task, git, calls, resp>>

\* the answers of requests.get for a remote attachment: content, or an exception
FetchAnswers == {Http(200, <<"bytes">>), Http(404, <<"not found">>), Raised}

\* lines 170-172 with decode_data_uri, lines 40-44: one attachment is resolved
\* and written; a remote one is fetched, and the fetch may raise
generate_llm_app_attachment ==
    /\ pc = "g_attachments"
    /\ loc.i <= Len(task.attachments)
    /\ LET att == task.attachments[loc.i]
       IN  IF att.url = "data:"
           THEN /\ wd' = WriteFile(wd, att.name, <<"bytes">>)
                /\ loc' = [loc EXCEPT !.i = @ + 1]
                /\ UNCHANGED <<pc, resp, calls>>
           ELSE \E r \in FetchAnswers :
                  /\ calls' = Append(calls, HttpResult("fetch", r))
                  /\ IF r.exc
                     THEN Abort("fetch") /\ UNCHANGED <<wd, loc>>
                     ELSE /\ wd' = WriteFile(wd, att.name, r.text)
                          /\ loc' = [loc EXCEPT !.i = @ + 1]
                          /\ UNCHANGED <<pc, resp>>
    /\ UNCHANGED <<world, task, git>>

ModelResult(answer) ==
    [cmd |-> "model", exc |-> answer.exc, status_code |-> 0, text |-> answer.text]

\* lines 174-181: the Generation Client, then the README, then return
generate_llm_app_gemini ==
    /\ pc = "g_attachments"
    /\ loc.i > Len(task.attachments)
    /\ \E answer \in ModelAnswers :
         LET g == generate_app_with_gemini(cfg.GEMINI_API_KEY, answer, wd)
         IN  /\ calls' = IF g.called THEN Append(calls, ModelResult(answer)) ELSE calls
             /\ IF g.raised
                THEN Abort("generation") /\ wd' = wd
                ELSE /\ wd' = IF Exists(g.dir, "README.md") THEN g.dir
                              ELSE WriteFile(g.dir, "README.md", ReadmeAuto(task))
                     /\ pc' = "c_init"
                     /\ resp' = resp
    /\ UNCHANGED <<world, task, git, loc>>

(* -------------------------- create_repo_and_push ---------------------- *)
\* run(cmd, cwd), lines 46-52, for a command that changes nothing the model
\* tracks: it returns, or it raises RuntimeError
RunPlain(at, cmd, next) ==
    /\ pc = at
    /\ \E rc \in ReturnCodes :
         /\ calls' = Append(calls, RunResult(cmd, rc))
         /\ IF run_raises(rc) THEN Abort("git") ELSE pc' = next /\ resp' = resp
    /\ UNCHANGED <<world, task, wd, git, loc>>

\* lines 90-92
create_repo_init == RunPlain("c_init", "git init", "c_config_email")
create_repo_config_email == RunPlain("c_config_email", "git config", "c_config_name")
create_repo_config_name == RunPlain("c_config_name", "git config", "c_write")

\* lines 94-105: LICENSE, README if absent, the workflow file
create_repo_write_files ==
    /\ pc = "c_write"
    /\ LET d1 == WriteFile(wd, "LICENSE", LICENSE_TEXT)
           d2 == IF Exists(d1, "README.md") THEN d1
                 ELSE WriteFile(d1, "README.md", ReadmeInit)
       IN  wd' = WriteFile(d2, PAGES_YML_PATH, PAGES_WF_YML)
    /\ pc' = "c_add"
    /\ UNCHANGED <<world, task, git, loc, calls, resp>>

\* line 107
create_repo_add == RunPlain("c_add", "git add", "c_commit")

\* line 108: the initial commit
create_repo_commit ==
    /\ pc = "c_commit"
    /\ \E rc \in ReturnCodes :
         /\ calls' = Append(calls, RunResult("git commit", rc))
         /\ git' = IF rc = 0 THEN [git EXCEPT !.head = [sha |-> nreq, tree |-> wd]] ELSE git
         /\ IF run_raises(rc) THEN Abort("git") ELSE pc' = "c_create" /\ resp' = resp
    /\ UNCHANGED <<world, task, wd, loc>>

AlreadyExistsText == <<"name", "already", "exists", "on", "this", "account">>
\* the answers of POST /user/repos for a repository in state r
CreateAnswers(r) ==
    (IF r.exists THEN {Http(422, AlreadyExistsText)} ELSE {Http(201, <<>>)})
    \cup {Http(422, <<"name", "is", "invalid">>), Http(403, <<>>), Raised}

\* a creation check without the branch for a repository that already exists
CreateOutcomeStrict(r) ==
    IF r.status_code \notin {200, 201} THEN "raise" ELSE "created"
\* lines 113-116: what the creation answer leads to
CreateOutcome(r) ==
    IF r.status_code = 422 /\ Contains(str_lower(r.text), <<"already", "exists">>)
    THEN "continue"
    ELSE IF r.status_code \notin {200, 201} THEN "raise" ELSE "created"

\* lines 111-116: the repository is created through the REST API
create_repo_post ==
    /\ pc = "c_create"
    /\ \E r \in CreateAnswers(remote[task.task]) :
         /\ calls' = Append(calls, HttpResult("POST /user/repos", r))
         /\ remote' = IF ~r.exc /\ r.status_code = 201
                      THEN [remote EXCEPT ![task.task] = EmptyRepo] ELSE remote
         /\ IF r.exc THEN Abort("hosting")
            ELSE IF CreateOutcome(r) = "raise" THEN Abort("hosting")
            ELSE pc' = "c_remote_add" /\ resp' = resp
    /\ UNCHANGED <<ex, cfg, tmpdirs, nreq, jobs, task, wd, git, loc>>

\* line 119
create_repo_remote_add ==
    /\ pc = "c_remote_add"
    /\ \E rc \in ReturnCodes :
         /\ calls' = Append(calls, RunResult("git remote add", rc))
         /\ git' = IF rc = 0 THEN [git EXCEPT !.origin = _token_remote(task.task)] ELSE git
         /\ IF run_raises(rc) THEN Abort("git") ELSE pc' = "c_push" /\ resp' = resp
    /\ UNCHANGED <<world, task, wd, loc>>

\* the return codes git push can give: the push succeeds only with the token in
\* the remote, into a repository that exists and, for a new history (no parent
\* commit on the platform), is empty
PushCodes(g, r, fresh) ==
    IF /\ g.origin = _token_remote(task.task)
       /\ g.head # NoCommit
       /\ r.exists
       /\ (fresh => r.head = NoCommit)
    THEN ReturnCodes ELSE {1}

\* line 120
create_repo_push ==
    /\ pc = "c_push"
    /\ \E rc \in PushCodes(git, remote[task.task], TRUE) :
         /\ calls' = Append(calls, RunResult("git push", rc))
         /\ remote' = IF rc = 0 THEN [remote EXCEPT ![task.task].head = git.head] ELSE remote
         /\ IF run_raises(rc) THEN Abort("git") ELSE pc' = "c_set_url" /\ resp' = resp
    /\ UNCHANGED <<ex, cfg, tmpdirs, nreq, jobs, task, wd, git, loc>>

\* line 122
create_repo_set_url ==
    /\ pc = "c_set_url"
    /\ \E rc \in ReturnCodes :
         /\ calls' = Append(calls, RunResult("git remote set-url", rc))
         /\ git' = IF rc = 0 THEN [git EXCEPT !.origin = _public_remote(task.task)] ELSE git
         /\ IF run_raises(rc)
            THEN Abort("git") /\ loc' = loc
            ELSE pc' = "c_pages" /\ resp' = resp /\ loc' = [loc EXCEPT !.i = 1]
    /\ UNCHANGED <<world, task, wd>>

PagesAnswers == {Http(201, <<>>), Http(409, <<>>), Http(404, <<>>), Raised}
\* line 133
PagesEnabled(r) == ~r.exc /\ r.status_code \in {201, 204, 409}
\* where the loop of lines 125-137 goes after an attempt that did not succeed
\* and its sleep: the next attempt, or past the loop
AfterPagesLoop(i) == IF i < PagesTries THEN "c_pages" ELSE "c_rev_parse"

\* lines 125-137: one attempt to enable Pages
create_repo_enable_pages ==
    /\ pc = "c_pages"
    /\ \E r \in PagesAnswers :
         /\ calls' = Append(calls, HttpResult("POST /pages", r))
         /\ IF PagesEnabled(r)
            THEN /\ pc' = "c_rev_parse"
                 /\ loc' = loc
            ELSE /\ loc' = [loc EXCEPT !.slept = @ + PagesSleep, !.i = @ + 1]
                 /\ pc' = AfterPagesLoop(loc.i)
    /\ UNCHANGED <<world, task, wd, git, resp>>

\* lines 139-141, and line 266
create_repo_rev_parse ==
    /\ pc = "c_rev_parse"
    /\ \E rc \in ReturnCodes :
         /\ calls' = Append(calls, RunResult("git rev-parse", rc))
         /\ IF run_raises(rc)
            THEN Abort("git") /\ loc' = loc
            ELSE /\ loc' = [loc EXCEPT !.repo_url = _public_remote(task.task),
                                       !.sha = IF rc = 0 THEN git.head.sha ELSE 0,
                                       !.pages_url = PagesUrl(task.task)]
                 /\ pc' = "payload"
                 /\ resp' = resp
    /\ UNCHANGED <<world, task, wd, git>>

(* ----------------------------- update_llm_app ------------------------- *)
\* line 186: tempfile.mkdtemp
update_llm_app_mkdtemp ==
    /\ pc = "update_llm_app"
    /\ tmpdirs' = tmpdirs \cup {nreq}
    /\ loc' = [loc EXCEPT !.tmp = nreq]
    /\ wd' = EmptyDir
    /\ pc' = "u_clone"
    /\ UNCHANGED <<ex, cfg, remote, nreq, jobs, task, git, calls, resp>>

\* the return codes of git clone: it fails when there is no repository
CloneCodes(r) == IF r.exists THEN ReturnCodes ELSE {1}

\* line 189: git clone of the public remote
update_llm_app_clone ==
    /\ pc = "u_clone"
    /\ \E rc \in CloneCodes(remote[task.task]) :
         /\ calls' = Append(calls, RunResult("git clone", rc))
         /\ wd' = IF rc = 0 THEN remote[task.task].head.tree ELSE wd
         /\ git' = IF rc = 0
                   THEN [origin |-> _public_remote(task.task), head |-> remote[task.task].head]
                   ELSE git
         /\ IF run_raises(rc) THEN Abort("git") ELSE pc' = "u_checkout" /\ resp' = resp
    /\ UNCHANGED <<world, task, loc>>

\* the return codes of git checkout: the branch can be checked out only when
\* the clone has a commit
CheckoutCodes(g) == IF g.head # NoCommit THEN ReturnCodes ELSE {1}

\* lines 191-193: git checkout of the branch; the RuntimeError is caught
update_llm_app_checkout ==
    /\ pc = "u_checkout"
    /\ \E rc \in CheckoutCodes(git) :
         /\ calls' = Append(calls, RunResult("git checkout", rc))
         /\ pc' = IF run_raises(rc) THEN "u_checkout_B" ELSE "u_gemini"
    /\ UNCHANGED <<world, task, wd, git, loc, resp>>

\* line 194: git checkout -B from the remote branch
update_llm_app_checkout_B ==
    /\ pc = "u_checkout_B"
    /\ \E rc \in CheckoutCodes(git) :
         /\ calls' = Append(calls, RunResult("git checkout -B", rc))
         /\ IF run_raises(rc) THEN Abort("git") ELSE pc' = "u_gemini" /\ resp' = resp
    /\ UNCHANGED <<world, task, wd, git, loc>>

\* line 197: the Generation Client on the clone
update_llm_app_gemini ==
    /\ pc = "u_gemini"
    /\ \E answer \in ModelAnswers :
         LET g == generate_app_with_gemini(cfg.GEMINI_API_KEY, answer, wd)
         IN  /\ calls' = IF g.called THEN Append(calls, ModelResult(answer)) ELSE calls
             /\ IF g.raised
                THEN Abort("generation") /\ wd' = wd
                ELSE /\ wd' = g.dir
                     /\ pc' = "u_write"
                     /\ resp' = resp
    /\ UNCHANGED <<world, task, git, loc>>

\* str(time.time()) at line 205, for the request being handled: requests are
\* handled one after the other, so the clock differs from request to request
\* a clock that stands still
TimestampFixed == <<"time", "0">>
Timestamp == <<"time", ToString(nreq)>>

\* lines 199-214: the workflow file, the marker file, the README
update_llm_app_write_files ==
    /\ pc = "u_write"
    /\ wd' = WriteFile(WriteFile(WriteFile(wd, PAGES_YML_PATH, PAGES_WF_YML),
                                 ".redeploy", Timestamp),
                       "README.md", ReadmeUpdated(task))
    /\ pc' = "u_set_url_token"
    /\ UNCHANGED <<world, task, git, loc, calls, resp>>

\* line 217
update_llm_app_set_url_token ==
    /\ pc = "u_set_url_token"
    /\ \E rc \in ReturnCodes :
         /\ calls' = Append(calls, RunResult("git remote set-url", rc))
         /\ git' = IF rc = 0 THEN [git EXCEPT !.origin = _token_remote(task.task)] ELSE git
         /\ IF run_raises(rc) THEN Abort("git") ELSE pc' = "u_config_email" /\ resp' = resp
    /\ UNCHANGED <<world, task, wd, loc>>

\* lines 220-223
update_llm_app_config_email == RunPlain("u_config_email", "git config", "u_config_name")
update_llm_app_config_name == RunPlain("u_config_name", "git config", "u_add")
update_llm_app_add == RunPlain("u_add", "git add", "u_commit")

\* the return codes of git commit: it fails when the tree equals that of HEAD
CommitCodes(dir, g) == IF dir # g.head.tree THEN ReturnCodes ELSE {1}

\* line 224
update_llm_app_commit ==
    /\ pc = "u_commit"
    /\ \E rc \in CommitCodes(wd, git) :
         /\ calls' = Append(calls, RunResult("git commit", rc))
         /\ git' = IF rc = 0 THEN [git EXCEPT !.head = [sha |-> nreq, tree |-> wd]] ELSE git
         /\ IF run_raises(rc) THEN Abort("git") ELSE pc' = "u_push" /\ resp' = resp
    /\ UNCHANGED <<world, task, wd, loc>>

\* line 225
update_llm_app_push ==
    /\ pc = "u_push"
    /\ \E rc \in PushCodes(git, remote[task.task], FALSE) :
         /\ calls' = Append(calls, RunResult("git push", rc))
         /\ remote' = IF rc = 0 THEN [remote EXCEPT ![task.task].head = git.head] ELSE remote
         /\ IF run_raises(rc) THEN Abort("git") ELSE pc' = "u_set_url_public" /\ resp' = resp
    /\ UNCHANGED <<ex, cfg, tmpdirs, nreq, jobs, task, wd, git, loc>>

\* line 226
update_llm_app_set_url_public ==
    /\ pc = "u_set_url_public"
    /\ \E rc \in ReturnCodes :
         /\ calls' = Append(calls, RunResult("git remote set-url", rc))
         /\ git' = IF rc = 0 THEN [git EXCEPT !.origin = _public_remote(task.task)] ELSE git
         /\ IF run_raises(rc) THEN Abort("git") ELSE pc' = "u_rev_parse" /\ resp' = resp
    /\ UNCHANGED <<world, task, wd, loc>>

\* lines 228-229, and lines 268-270
update_llm_app_rev_parse ==
    /\ pc = "u_rev_parse"
    /\ \E rc \in ReturnCodes :
         /\ calls' = Append(calls, RunResult("git rev-parse", rc))
         /\ IF run_raises(rc)
            THEN Abort("git") /\ loc' = loc
            ELSE /\ loc' = [loc EXCEPT !.repo_url = _public_remote(task.task),
                                       !.sha = IF rc = 0 THEN git.head.sha ELSE 0,
                                       !.pages_url = PagesUrl(task.task)]
                 /\ pc' = "payload"
                 /\ resp' = resp
    /\ UNCHANGED <<world, task, wd, git>>

(* --------------------------- ingest, the end -------------------------- *)
\* a payload built before the commit id is known
PayloadWithoutSha(t, l) ==
    [email |-> t.email, task |-> t.task, round |-> t.round, nonce |-> t.nonce,
     repo_url |-> l.repo_url, commit_sha |-> 0, pages_url |-> l.pages_url]
\* lines 272-280
Payload(t, l) ==
    [email |-> t.email, task |-> t.task, round |-> t.round, nonce |-> t.nonce,
     repo_url |-> l.repo_url, commit_sha |-> l.sha, pages_url |-> l.pages_url]

NewJob(req, t, l) ==
    [req |-> req, evaluation_url |-> t.evaluation_url, payload |-> Payload(t, l),
     pc |-> "scheduled", elapsed |-> 0, polled |-> 0, ready |-> FALSE, attempts |-> 0,
     slept |-> <<>>, sent |-> {}, last |-> 0, all503 |-> TRUE]

\* lines 272-283: the payload is built and notify_evaluator is added to the
\* background tasks of the response
ingest_add_task ==
    /\ pc = "payload"
    /\ jobs' = Append(jobs, NewJob(nreq, task, loc))
    /\ pc' = "return"
    /\ UNCHANGED <<ex, cfg, remote, tmpdirs, nreq, task, wd, git, loc, calls, resp>>

\* line 285
ingest_return ==
    /\ pc = "return"
    /\ resp' = [status |-> 200, error |-> "", ok |-> TRUE, repo_url |-> loc.repo_url,
                commit_sha |-> loc.sha, pages_url |-> loc.pages_url]
    /\ pc' = "responded"
    /\ UNCHANGED <<world, task, wd, git, loc, calls>>

\* the handler has returned or raised: the framework sends the response, and the
\* locals of the handler are gone
send_response ==
    /\ pc = "responded"
    /\ pc' = "idle"
    /\ task' = NoTask
    /\ wd' = EmptyDir
    /\ git' = NoGit
    /\ loc' = NoLoc
    /\ calls' = <<>>
    /\ resp' = NoResp
    /\ UNCHANGED world

(* ------------------ notify_evaluator and wait_for_pages --------------- *)
\* a job that runs as soon as it is added
JobMayStartAtOnce(j) == TRUE
\* line 283, BackgroundTasks.add_task: the framework runs the background tasks
\* of a response after it has sent the response
JobMayStart(j) == pc = "idle"

\* line 235 and lines 56-57: the job starts and enters wait_for_pages
notify_evaluator_start(j) ==
    /\ jobs[j].pc = "scheduled"
    /\ JobMayStart(j)
    /\ jobs' = [jobs EXCEPT ![j].pc = "waiting", ![j].elapsed = 0]
    /\ UNCHANGED <<ex, cfg, remote, tmpdirs, nreq, handler>>

PollAnswers == {Http(200, <<>>), Http(404, <<>>), Raised}
\* how long one requests.get of the watcher takes: no time, or its timeout
PollDurations == {0, poll_timeout}

\* a poll whose network error leaves wait_for_pages
PollCaughtNever(r) == FALSE
\* lines 59-65: the exception of a poll is caught (requests.RequestException)
PollCaught(r) == r.exc

\* lines 58-66: one poll of the Pages URL (elapsed is time.time() - start, a
\* local of wait_for_pages, gone when it returns; polled is the answer of the
\* poll: its status, or -1 for a network error)
wait_for_pages_poll(j) ==
    /\ jobs[j].pc = "waiting"
    /\ jobs[j].elapsed < max_wait
    /\ \E r \in PollAnswers, d \in PollDurations :
         IF r.exc /\ ~PollCaught(r)
         THEN jobs' = [jobs EXCEPT ![j].pc = "raised", ![j].polled = -1, ![j].elapsed = 0]
         ELSE IF ~r.exc /\ r.status_code = 200
         THEN jobs' = [jobs EXCEPT ![j].pc = "posting", ![j].ready = TRUE,
                                   ![j].polled = 200, ![j].elapsed = 0]
         ELSE jobs' = [jobs EXCEPT ![j].elapsed = @ + d + interval,
                                   ![j].polled = IF r.exc THEN -1 ELSE r.status_code]
    /\ UNCHANGED <<ex, cfg, remote, tmpdirs, nreq, handler>>

\* lines 58, 67-68: the maximum wait has elapsed
wait_for_pages_timeout(j) ==
    /\ jobs[j].pc = "waiting"
    /\ jobs[j].elapsed >= max_wait
    /\ jobs' = [jobs EXCEPT ![j].pc = "posting", ![j].ready = FALSE, ![j].elapsed = 0]
    /\ UNCHANGED <<ex, cfg, remote, tmpdirs, nreq, handler>>

NotifyAnswers == {Http(200, <<>>), Http(204, <<>>), Http(503, <<>>), Raised}
\* a success test that accepts every 200-class status
DeliveredAny2xx(r) == ~r.exc /\ r.status_code \in 200..299
\* line 241
Delivered(r) == ~r.exc /\ r.status_code = 200

\* lines 236-248: one delivery attempt, and the sleep after it when it failed
notify_evaluator_post(j) ==
    /\ jobs[j].pc = "posting"
    /\ LET k == jobs[j].attempts + 1
       IN  \E r \in NotifyAnswers :
             jobs' = [jobs EXCEPT
                ![j].attempts = k,
                ![j].sent = @ \cup {jobs[j].payload},
                ![j].last = IF r.exc THEN -1 ELSE r.status_code,
                ![j].all503 = @ /\ ~r.exc /\ r.status_code = 503,
                ![j].slept = IF Delivered(r) THEN @ ELSE Append(@, Delays[k]),
                ![j].pc = IF Delivered(r) THEN "delivered"
                          ELSE IF k < Len(Delays) THEN "posting" ELSE "gave_up"]
    /\ UNCHANGED <<ex, cfg, remote, tmpdirs, nreq, handler>>

\* notify_evaluator returns (line 243 or after line 248): the job ends
notify_evaluator_return(j) ==
    /\ jobs[j].pc \in {"delivered", "gave_up"}
    /\ jobs' = [jobs EXCEPT ![j] = Finished(jobs[j].req)]
    /\ UNCHANGED <<ex, cfg, remote, tmpdirs, nreq, handler>>

(* ---------------------------- specification --------------------------- *)
Next ==
    \/ \E t \in Tasks : Receive(t)
    \/ ingest_verify_secret
    \/ generate_llm_app_mkdtemp
    \/ generate_llm_app_attachment
    \/ generate_llm_app_gemini
    \/ create_repo_init
    \/ create_repo_config_email
    \/ create_repo_config_name
    \/ create_repo_write_files
    \/ create_repo_add
    \/ create_repo_commit
    \/ create_repo_post
    \/ create_repo_remote_add
    \/ create_repo_push
    \/ create_repo_set_url
    \/ create_repo_enable_pages
    \/ create_repo_rev_parse
    \/ update_llm_app_mkdtemp
    \/ update_llm_app_clone
    \/ update_llm_app_checkout
    \/ update_llm_app_checkout_B
    \/ update_llm_app_gemini
    \/ update_llm_app_write_files
    \/ update_llm_app_set_url_token
    \/ update_llm_app_config_email
    \/ update_llm_app_config_name
    \/ update_llm_app_add
    \/ update_llm_app_commit
    \/ update_llm_app_push
    \/ update_llm_app_set_url_public
    \/ update_llm_app_rev_parse
    \/ ingest_add_task
    \/ ingest_return
    \/ send_response
    \/ \E j \in 1..Len(jobs) : notify_evaluator_start(j)
    \/ \E j \in 1..Len(jobs) : wait_for_pages_poll(j)
    \/ \E j \in 1..Len(jobs) : wait_for_pages_timeout(j)
    \/ \E j \in 1..Len(jobs) : notify_evaluator_post(j)
    \/ \E j \in 1..Len(jobs) : notify_evaluator_return(j)

Spec == Init /\ [][Next]_vars

(* ------------- the extractor and the Generation Client alone ---------- *)
\* largest number of segments a response is made of
MaxSegs == 3

\* what a response is made of: prose, a fenced segment (fence, language marker,
\* newline, content, fence) and a code span inside a line of prose (backquotes
\* that open no segment: the marker is followed by a space, the closing
\* backquotes by a comma).  trimmed is the content without the whitespace
\* around it
Prose(text) == [kind |-> "prose", tag |-> <<>>, content |-> text, trimmed |-> text]
Span(tag, text) == [kind |-> "span", tag |-> tag, content |-> text, trimmed |-> text]
Block(tag, content, trimmed) ==
    [kind |-> "block", tag |-> tag, content |-> content, trimmed |-> trimmed]
TagHtml == <<"h", "t", "m", "l">>
TagHTML == <<"H", "T", "M", "L">>
TagCss == <<"c", "s", "s">>
TagJs == <<"j", "s">>
Segments ==
    {Prose(<<"s", "e", "e", ":">>),
     Prose(<<" ">>),
     Span(TagHtml, <<"<", "p", ">">>),
     Block(TagHtml, <<"<", "p", ">", "\n">>, <<"<", "p", ">">>),
     Block(TagHtml, <<" ", "<", "q", ">", " ", "\n">>, <<"<", "q", ">">>),
     Block(TagHTML, <<"<", "b", ">">>, <<"<", "b", ">">>),
     Block(TagCss, <<"b", "{", "}", "\n">>, <<"b", "{", "}">>),
     Block(TagJs, <<"\n", "f", "(", ")", "\n">>, <<"f", "(", ")">>),
     Block(<<>>, <<"x", "\n">>, <<"x">>)}
SegmentLists == UNION {[1..n -> Segments] : n \in 0..MaxSegs}

\* the text of one segment, and of a response: its segments, a newline after each
RenderSegment(g) ==
    CASE g.kind = "prose" -> g.content
      [] g.kind = "span" -> FENCE \o g.tag \o <<" ">> \o g.content \o FENCE \o <<",">>
      [] g.kind = "block" -> FENCE \o g.tag \o <<"\n">> \o g.content \o FENCE
RECURSIVE Render(_)
Render(segs) ==
    IF segs = <<>> THEN <<>>
    ELSE RenderSegment(Head(segs)) \o <<"\n">> \o Render(Tail(segs))

\* a response text is given
ExtractInit ==
    /\ ex \in {[NoEx EXCEPT !.segs = g, !.md = Render(g), !.stage = "input"] :
                 g \in SegmentLists}
    /\ cfg = [SHARED_SECRET |-> TheSecret, GEMINI_API_KEY |-> "key"]
    /\ remote = [t \in TaskIds |-> NoRepo]
    /\ tmpdirs = {}
    /\ nreq = 0
    /\ task = NoTask
    /\ pc = "idle"
    /\ wd = EmptyDir
    /\ git = NoGit
    /\ loc = NoLoc
    /\ calls = <<>>
    /\ resp = NoResp
    /\ jobs = <<>>

\* _extract_files_from_markdown(md), lines 11-33, is called on the text
extract_files_from_markdown_call ==
    /\ ex.stage = "input"
    /\ ex' = [ex EXCEPT !.stage = "extracted",
                        !.files = _extract_files_from_markdown(ex.md)]
    /\ UNCHANGED <<cfg, remote, tmpdirs, nreq, jobs, handler>>

\* the directories the Generation Client is called on: the new one of
\* generate_llm_app, the clone of update_llm_app
WorkDirs == {EmptyDir, PublishedTree}

\* generate_app_with_gemini(brief, work_dir, attachment_names), lines 84-127, is
\* called with or without a credential; the model raises or answers the text
generate_app_with_gemini_call ==
    /\ ex.stage = "input"
    /\ \E api_key \in {None, "key"}, exc \in BOOLEAN, dir \in WorkDirs :
         ex' = [ex EXCEPT !.stage = "generated",
                          !.dir = dir,
                          !.gen = generate_app_with_gemini(api_key,
                                     [exc |-> exc, text |-> ex.md], dir)]
    /\ UNCHANGED <<cfg, remote, tmpdirs, nreq, jobs, handler>>

ExtractNext ==
    \/ extract_files_from_markdown_call
    \/ generate_app_with_gemini_call

SpecExtract == ExtractInit /\ [][ExtractNext]_vars

(* ------------------------------- claims ------------------------------- *)
\* the shared secret of the request being handled is configured and matches
SecretOk == cfg.SHARED_SECRET \notin {None, ""} /\ task.secret = cfg.SHARED_SECRET
\* the jobs scheduled for the request being handled
TaskJobs == {j \in 1..Len(jobs) : jobs[j].req = nreq}
LastCall == calls[Len(calls)]

\* C1: a request whose secret differs from the configured one, or that arrives
\* when no secret is configured, is answered 401 and makes no external call, creates
\* no directory and schedules no notification, while it is handled; and the step
\* after the 401 response changes neither the jobs, the platform nor the disk
C1_InvalidSecretNoExternalCall ==
    /\ [](pc # "idle" /\ ~SecretOk =>
            /\ calls = <<>>
            /\ pc \in {"verify_secret", "responded"}
            /\ (pc = "responded" => resp.status = 401)
            /\ TaskJobs = {}
            /\ nreq \notin tmpdirs)
    /\ [][pc = "responded" /\ resp.status = 401 =>
            jobs' = jobs /\ remote' = remote /\ tmpdirs' = tmpdirs]_vars

C1_Witness ==
    /\ pc = "responded" /\ resp.status = 401
    /\ cfg.SHARED_SECRET = TheSecret /\ task.secret = "wrong"

\* C2: a job whose every delivery attempt was answered 503 has slept 1, 2, 4, 8,
\* 16 after its attempts, in that order, makes exactly 5 attempts and then
\* reaches the end of notify_evaluator
C2_AlwaysUnavailableFiveAttempts ==
    \A j \in 1..Len(jobs) :
        jobs[j].all503 /\ jobs[j].attempts > 0 =>
            /\ jobs[j].attempts <= 5
            /\ jobs[j].slept = SubSeq(<<1, 2, 4, 8, 16>>, 1, jobs[j].attempts)
            /\ jobs[j].pc = IF jobs[j].attempts = 5 THEN "gave_up" ELSE "posting"

C2_Witness ==
    \E j \in 1..Len(jobs) :
        jobs[j].all503 /\ jobs[j].pc = "gave_up" /\ jobs[j].slept = <<1, 2, 4, 8, 16>>

\* what follows a delivery attempt that is no success: the next attempt while
\* attempts remain, the end of the schedule otherwise
AfterFailedAttempt(job) == IF job.attempts < 5 THEN "posting" ELSE "gave_up"

\* C3 as stated: every status from 200 to 299 ends the job at once, every other
\* answer leads to the next attempt
C3_Any2xxIsSuccess ==
    \A j \in 1..Len(jobs) :
        jobs[j].attempts > 0 =>
            jobs[j].pc = IF jobs[j].last \in 200..299 THEN "delivered"
                         ELSE AfterFailedAttempt(jobs[j])

\* C3, amended: only status 200 ends the job at once, without a sleep after the
\* attempt; every other status, the other 200-class ones included, and every
\* transport error is followed by the scheduled delay and the next attempt
C3_Only200IsSuccess ==
    \A j \in 1..Len(jobs) :
        jobs[j].attempts > 0 =>
            /\ jobs[j].pc = IF jobs[j].last = 200 THEN "delivered"
                            ELSE AfterFailedAttempt(jobs[j])
            /\ jobs[j].slept =
                 SubSeq(<<1, 2, 4, 8, 16>>, 1,
                        IF jobs[j].last = 200 THEN jobs[j].attempts - 1 ELSE jobs[j].attempts)

C3_Witness ==
    \E j \in 1..Len(jobs) :
        jobs[j].attempts = 1 /\ jobs[j].last = 204 /\ jobs[j].pc = "posting"

\* C4 as stated: when the model call raised or returned an empty text, the
\* Generation Client has written an index.html and the step goes on
C4_GenerationFailureRecovered ==
    pc # "idle" /\ calls # <<>> /\ LastCall.cmd = "model"
      /\ (LastCall.exc \/ strip(LastCall.text) = <<>>) =>
        /\ pc \in {"c_init", "u_write"}
        /\ resp.status = 0
        /\ Exists(wd, "index.html")

GitCmds == {"git init", "git config", "git add", "git commit", "git remote add",
            "git push", "git remote set-url", "git rev-parse", "git clone",
            "git checkout", "git checkout -B"}
\* no git command and no hosting or attachment request of this request failed
NoOperationFailed ==
    \A k \in 1..Len(calls) :
        /\ calls[k].cmd \in GitCmds => calls[k].status_code = 0
        /\ calls[k].cmd \in {"POST /user/repos", "POST /pages", "fetch"} =>
              ~calls[k].exc /\ calls[k].status_code \in 200..299

\* C5 as stated: an accepted round-1 Task handled without a model credential,
\* with no git or hosting failure, ends with the fallback site and the workflow
\* file pushed and a notification scheduled with the seven payload fields
C5_NoCredentialStillPublishes ==
    pc = "responded" /\ SecretOk /\ task.round = 1 /\ cfg.GEMINI_API_KEY = None
      /\ NoOperationFailed =>
        /\ resp.status = 200
        /\ {"index.html", "style.css", "script.js", PAGES_YML_PATH}
              \subseteq DOMAIN remote[task.task].head.tree
        /\ \E j \in TaskJobs :
              DOMAIN jobs[j].payload = {"email", "task", "round", "nonce", "repo_url",
                                        "commit_sha", "pages_url"}

\* the creation answer "422, already exists", and the answer of a creation
AlreadyExistsAnswer(c) ==
    c.cmd = "POST /user/repos" /\ ~c.exc /\ c.status_code = 422 /\ c.text = AlreadyExistsText
CreatedAnswer(c) == c.cmd = "POST /user/repos" /\ ~c.exc /\ c.status_code = 201
\* after the creation request at position k the Publisher goes on: remote add,
\* push, set-url, then the Pages request
GoesOnAfter(k) ==
    /\ resp.error # "hosting"
    /\ pc \in {"c_remote_add", "c_push", "c_set_url", "c_pages", "c_rev_parse",
               "payload", "return", "responded"}
    /\ (Len(calls) >= k + 1 => calls[k + 1].cmd = "git remote add")
    /\ (Len(calls) >= k + 2 => calls[k + 2].cmd = "git push")
    /\ (Len(calls) >= k + 3 => calls[k + 3].cmd = "git remote set-url")
    /\ (Len(calls) >= k + 4 => calls[k + 4].cmd = "POST /pages")

\* C6: after the answer "repository already exists" the Publisher does not
\* abort; it adds the remote, pushes and requests Pages as after a creation
C6_AlreadyExistsContinues ==
    \A k \in 1..Len(calls) :
        AlreadyExistsAnswer(calls[k]) \/ CreatedAnswer(calls[k]) => GoesOnAfter(k)

C6_Witness ==
    /\ pc = "return"
    /\ \E k \in 1..Len(calls) : AlreadyExistsAnswer(calls[k])
    /\ \E k \in 1..Len(calls) : calls[k].cmd = "POST /pages"

\* a git command of the request failed; the creation was refused
GitFailed == \E k \in 1..Len(calls) : calls[k].cmd \in GitCmds /\ calls[k].status_code # 0
CreationRefused ==
    \E k \in 1..Len(calls) :
        /\ calls[k].cmd = "POST /user/repos"
        /\ ~AlreadyExistsAnswer(calls[k])
        /\ (calls[k].exc \/ calls[k].status_code \notin {200, 201})
PagesCalls == {k \in 1..Len(calls) : calls[k].cmd = "POST /pages"}
PagesCallFailed(k) == calls[k].exc \/ calls[k].status_code \notin {201, 204, 409}
\* the request to enable Pages failed in every one of its 5 tries
PagesNeverEnabled ==
    Cardinality(PagesCalls) = 5 /\ \A k \in PagesCalls : PagesCallFailed(k)
\* the Task is aborted: a 5xx response and no notification
Aborted == pc = "responded" /\ resp.status = 500 /\ TaskJobs = {}

\* C7 as stated: in the Publisher a failed git command, a refused creation and
\* a Pages request that failed in all its tries each abort the Task
C7_EveryFailureFatal ==
    pc # "idle" /\ task.round = 1 =>
        (GitFailed \/ CreationRefused \/ PagesNeverEnabled => Aborted)

\* C7, amended: a failed git command (the push included) and a refused creation
\* abort the Task; a Pages request that failed in all its 5 tries does not: the
\* Publisher goes on to git rev-parse and only a failure of that aborts
C7_GitAndCreationFailuresFatal ==
    pc # "idle" /\ task.round = 1 =>
        /\ (GitFailed \/ CreationRefused => Aborted)
        /\ (PagesNeverEnabled =>
              /\ pc \in {"c_rev_parse", "payload", "return", "responded"}
              /\ (pc = "responded" /\ resp.status = 500 =>
                    LastCall.cmd = "git rev-parse" /\ LastCall.status_code # 0))

C7_Witness ==
    /\ pc = "responded" /\ resp.status = 500 /\ task.round = 1
    /\ calls # <<>>
    /\ LastCall.cmd = "git push" /\ LastCall.status_code # 0
    /\ TaskJobs = {}

\* the publish or update step of the request being handled has completed:
\* its commit is pushed and its id read
StepCompleted ==
    /\ calls # <<>>
    /\ \E k \in 1..Len(calls) : calls[k].cmd = "git push" /\ calls[k].status_code = 0
    /\ LastCall.cmd = "git rev-parse" /\ LastCall.status_code = 0
    /\ loc.sha = nreq
    /\ remote[task.task].head.sha = nreq

\* C8: an accepted Task of a round above 1 whose repository does not exist
\* fails in the clone, is answered 500 and schedules no notification; a
\* notification is scheduled only once the publish or update step of the same
\* Task has completed
C8_NoRepositoryNoNotification ==
    /\ (pc # "idle" /\ SecretOk /\ task.round > 1 /\ ~remote[task.task].exists =>
          /\ pc \in {"verify_secret", "update_llm_app", "u_clone", "responded"}
          /\ TaskJobs = {}
          /\ (pc = "responded" =>
                /\ resp.status = 500
                /\ LastCall.cmd = "git clone" /\ LastCall.status_code # 0))
    /\ (pc # "idle" /\ TaskJobs # {} =>
          StepCompleted /\ pc \in {"return", "responded"} /\ resp.status \in {0, 200})

C8_Witness ==
    /\ pc = "responded" /\ SecretOk /\ task.round = 2 /\ ~remote[task.task].exists
    /\ resp.status = 500 /\ calls # <<>> /\ LastCall.cmd = "git clone"

\* a job that has not started: no poll, no delivery attempt, no sleep
Pristine(job) ==
    job.pc = "scheduled" /\ job.attempts = 0 /\ job.elapsed = 0 /\ job.slept = <<>>

\* C9 as stated: while the request is handled its job has not started, and no
\* retry delay is spent in the handler
C9_NoDelayInRequest ==
    pc # "idle" =>
        /\ \A j \in TaskJobs : Pristine(jobs[j])
        /\ loc.slept = 0

\* C9, amended: the handler produces the acknowledgment after the publish or
\* update step has completed and before its job polls or posts; the only delay
\* it spends itself is that of the Pages loop: 2 per failed try, at most 10
C9_OnlyPagesDelayInRequest ==
    pc # "idle" =>
        /\ \A j \in TaskJobs : Pristine(jobs[j])
        /\ (resp.status = 200 => StepCompleted /\ TaskJobs # {})
        /\ loc.slept = 2 * Cardinality({k \in PagesCalls : PagesCallFailed(k)})
        /\ loc.slept <= 10

C9_Witness ==
    /\ pc = "responded" /\ resp.status = 200
    /\ resp.commit_sha = nreq
    /\ \E j \in TaskJobs : Pristine(jobs[j])
    /\ loc.slept = 10

PublishPcs == {"generate_llm_app", "g_attachments", "c_init", "c_config_email",
               "c_config_name", "c_write", "c_add", "c_commit", "c_create",
               "c_remote_add", "c_push", "c_set_url", "c_pages", "c_rev_parse"}
UpdatePcs == {"update_llm_app", "u_clone", "u_checkout", "u_checkout_B", "u_gemini",
              "u_write", "u_set_url_token", "u_config_email", "u_config_name", "u_add",
              "u_commit", "u_push", "u_set_url_public", "u_rev_parse"}
Ran(cmd) == \E k \in 1..Len(calls) : calls[k].cmd = cmd

\* C10 as stated: publishing only for round 1, updating only for a round above 1
C10_UpdateOnlyAboveOne ==
    /\ (pc \in PublishPcs => task.round = 1)
    /\ (pc \in UpdatePcs => task.round > 1)

\* C10, amended: publishing only for round 1, updating for every other round
\* (0 and below included); a Task never runs both steps; it is notifying (its
\* job scheduled) only after its one step, and done after that
C10_OneOfTwoPaths ==
    /\ (pc \in PublishPcs => task.round = 1)
    /\ (pc \in UpdatePcs => task.round # 1)
    /\ (pc # "idle" =>
          /\ ~(Ran("git init") /\ Ran("git clone"))
          /\ (Ran("git init") => task.round = 1)
          /\ (Ran("git clone") => task.round # 1)
          /\ (pc \in {"payload", "return"} \/ resp.status = 200 =>
                IF task.round = 1 THEN Ran("git init") ELSE Ran("git clone"))
          /\ (TaskJobs # {} => pc \in {"return", "responded"})
          /\ (resp.status = 200 => TaskJobs # {}))

C10_Witness ==
    /\ pc = "responded" /\ resp.status = 200 /\ task.round = 0
    /\ Ran("git clone") /\ TaskJobs # {}

\* the jobs scheduled for request r
JobsOf(r) == {j \in 1..Len(jobs) : jobs[j].req = r}
\* the handler of an accepted Task is past its publish or update step
StepSucceeded == pc = "return" \/ (pc = "responded" /\ resp.status = 200)
\* the payload of a job is the identity of the Task with what the handler returns
PayloadAsReturned(job) ==
    /\ job.payload.email = task.email /\ job.payload.task = task.task
    /\ job.payload.round = task.round /\ job.payload.nonce = task.nonce
    /\ job.payload.repo_url = loc.repo_url /\ job.payload.repo_url = _public_remote(task.task)
    /\ job.payload.commit_sha = loc.sha /\ job.payload.commit_sha = git.head.sha
    /\ job.payload.pages_url = loc.pages_url
    /\ (pc = "responded" =>
          /\ job.payload.repo_url = resp.repo_url
          /\ job.payload.commit_sha = resp.commit_sha
          /\ job.payload.pages_url = resp.pages_url)

\* C11: a Task whose publish or update step succeeded has exactly one job (no
\* request ever has two), whose payload is the Task's email, task, round and
\* nonce with the repo_url, commit_sha and pages_url of the response; every
\* attempt of the job sends that payload; a job makes at most 5 attempts, and
\* after an attempt answered 200 or after the fifth it only ends
C11_OneJobOnePayload ==
    /\ [](/\ \A r \in 1..nreq : Cardinality(JobsOf(r)) <= 1
          /\ (StepSucceeded =>
                /\ Cardinality(TaskJobs) = 1
                /\ \A j \in TaskJobs : PayloadAsReturned(jobs[j]))
          /\ \A j \in 1..Len(jobs) :
                /\ jobs[j].sent = IF jobs[j].attempts > 0 THEN {jobs[j].payload} ELSE {}
                /\ jobs[j].attempts <= 5
                /\ (jobs[j].pc = "delivered" => jobs[j].last = 200)
                /\ (jobs[j].pc = "gave_up" => jobs[j].attempts = 5 /\ jobs[j].last # 200))
    /\ [][\A j \in 1..Len(jobs) :
            /\ (jobs[j].pc \in {"delivered", "gave_up"} =>
                  jobs'[j] \in {jobs[j], Finished(jobs[j].req)})
            /\ (jobs[j].pc = "finished" => jobs'[j] = jobs[j])
            /\ (jobs'[j].pc # "finished" => jobs'[j].payload = jobs[j].payload)]_vars

C11_Witness ==
    \E j \in 1..Len(jobs) :
        /\ jobs[j].pc = "delivered" /\ jobs[j].attempts = 3
        /\ jobs[j].sent = {jobs[j].payload}
        /\ jobs[j].payload.round = 2 /\ jobs[j].payload.commit_sha = jobs[j].req
        /\ jobs[j].payload.pages_url = PagesUrl("t1")

\* the fenced segments of a response, in order of appearance
Blocks(segs) == SelectSeq(segs, LAMBDA g : g.kind = "block")
\* a text without its leading and trailing whitespace: from its first to its
\* last character that is no whitespace
Trimmed(s) ==
    LET ink == {k \in 1..Len(s) : s[k] \notin Whitespace}
    IN  IF ink = {} THEN <<>>
        ELSE SubSeq(s, CHOOSE a \in ink : \A k \in ink : a <= k,
                       CHOOSE b \in ink : \A k \in ink : b >= k)

\* C12: for a response made of prose and code spans only (no fenced segment)
\* _extract_files_from_markdown returns exactly one entry, named index.html,
\* whose content is the response without its leading and trailing whitespace
C12_NoSegmentWholeTextIsIndex ==
    ex.stage = "extracted" /\ Blocks(ex.segs) = <<>> =>
        ex.files = <<[name |-> "index.html", content |-> Trimmed(ex.md)]>>

C12_Witness ==
    /\ ex.stage = "extracted" /\ Blocks(ex.segs) = <<>>
    /\ Len(ex.segs) = 3 /\ ex.segs[1] = Prose(<<" ">>)
    /\ \E k \in 1..Len(ex.segs) : ex.segs[k].kind = "span"
    /\ Len(ex.files) = 1 /\ ex.files[1].name = "index.html"
    /\ ex.files[1].content = SubSeq(ex.md, 3, Len(ex.md) - 1)

\* the fenced segments of a response tagged html (in any case), in order
HtmlBlocks(segs) ==
    SelectSeq(segs, LAMBDA g : g.kind = "block" /\ g.tag \in {TagHtml, TagHTML})
\* the name of the k-th HTML file
NameOfPage(k) == IF k = 1 THEN "index.html" ELSE "page" \o ToString(k) \o ".html"
\* the entries of a mapping that are HTML files, in order of insertion
HtmlEntries(files) ==
    SelectSeq(files, LAMBDA f : \E k \in 1..(Len(files) + 1) : f.name = NameOfPage(k))

\* C13: for a response made of prose, code spans and fenced segments of which
\* N >= 1 are tagged html, _extract_files_from_markdown returns N HTML files:
\* the k-th, in order of insertion, is named index.html (k = 1) or page<k>.html
\* and holds the trimmed content of the k-th html segment; all names of the
\* mapping are pairwise distinct
C13_HtmlSegmentsGetOwnFiles ==
    ex.stage = "extracted" /\ HtmlBlocks(ex.segs) # <<>> =>
        LET h == HtmlBlocks(ex.segs)
            e == HtmlEntries(ex.files)
        IN  /\ Len(e) = Len(h)
            /\ \A k \in 1..Len(h) :
                  e[k].name = NameOfPage(k) /\ e[k].content = h[k].trimmed
            /\ \A a, b \in 1..Len(ex.files) :
                  a # b => ex.files[a].name # ex.files[b].name

C13_Witness ==
    /\ ex.stage = "extracted"
    /\ Len(HtmlBlocks(ex.segs)) = 3
    /\ ex.files = <<[name |-> "index.html", content |-> <<"<", "q", ">">>],
                    [name |-> "page2.html", content |-> <<"<", "p", ">">>],
                    [name |-> "page3.html", content |-> <<"<", "b", ">">>]>>

\* create_repo_and_push or update_llm_app was entered and has stopped: it
\* returned, or it raised and the request is answered
PublisherOrUpdaterStopped ==
    /\ pc \in {"payload", "return", "responded"}
    /\ Ran("git init") \/ Ran("git clone")

\* C14 as stated: once create_repo_and_push or update_llm_app has stopped,
\* returned or raised, the origin remote of the working tree is not the
\* token-bearing URL
C14_NoCredentialInConfigAfterStop ==
    PublisherOrUpdaterStopped => git.origin # _token_remote(task.task)

\* the Updater has written its files and has not yet committed them
UpdateWritten == pc \in {"u_set_url_token", "u_config_email", "u_config_name", "u_add",
                         "u_commit"}
\* two trees with the same files that differ in the marker file only
DifferInMarkerOnly(a, b) ==
    /\ DOMAIN a = DOMAIN b /\ ".redeploy" \in DOMAIN a
    /\ \A f \in DOMAIN a : (a[f] = b[f]) <=> (f # ".redeploy")

\* C15: in update_llm_app the tree to commit always differs from the tree of the
\* prior commit, at least in the marker file, whose content is new; so a commit
\* of the Updater that fails does not fail for lack of changes, the commit to
\* push differs from the head of the branch, and every push (of the Publisher or
\* of the Updater, in any sequence of rounds) changes the tree of the branch
C15_EveryPushChangesAFile ==
    /\ [](/\ (UpdateWritten =>
                /\ wd # git.head.tree
                /\ Exists(wd, ".redeploy")
                /\ (Exists(git.head.tree, ".redeploy") =>
                      wd[".redeploy"] # git.head.tree[".redeploy"]))
          /\ (pc = "u_push" => git.head.tree # remote[task.task].head.tree)
          /\ (pc = "responded" /\ task.round # 1 /\ calls # <<>>
                /\ LastCall.cmd = "git commit" => wd # git.head.tree))
    /\ [][\A t \in TaskIds :
            remote'[t].head # remote[t].head =>
                /\ remote'[t].head.tree # remote[t].head.tree
                /\ remote'[t].head.tree = wd]_vars

C15_Witness ==
    /\ pc = "u_push" /\ nreq = 2
    /\ remote[task.task].head.sha = 1 /\ git.head.sha = 2
    /\ DifferInMarkerOnly(git.head.tree, remote[task.task].head.tree)

\* the fenced segments of a response that give a file: tagged html, css or js
FileBlocks(segs) == SelectSeq(segs, LAMBDA g : g.kind = "block" /\ g.tag # <<>>)
\* the name the first segment of its kind is written under
FirstNameOf(g) ==
    CASE g.tag \in {TagHtml, TagHTML} -> "index.html"
      [] g.tag = TagCss -> "style.css"
      [] g.tag = TagJs -> "script.js"

\* C16: after a call of generate_app_with_gemini that returned, the directory
\* has an index.html (and every file it had before); when the response has
\* segments that give files but none tagged html, index.html holds the content
\* of the first of them, which is also written under its own name; with an html
\* segment index.html holds the first html segment, and without any segment
\* that gives a file it holds the trimmed response
C16_IndexAlwaysWritten ==
    ex.stage = "generated" /\ ~ex.gen.raised =>
        LET dir == ex.gen.dir
            f == FileBlocks(ex.segs)
            h == HtmlBlocks(ex.segs)
        IN  /\ Exists(dir, "index.html")
            /\ DOMAIN ex.dir \subseteq DOMAIN dir
            /\ (f # <<>> /\ h = <<>> =>
                  /\ dir["index.html"] = f[1].trimmed
                  /\ dir[FirstNameOf(f[1])] = f[1].trimmed)
            /\ (h # <<>> => dir["index.html"] = h[1].trimmed)
            /\ (f = <<>> => dir["index.html"] = Trimmed(ex.md))

C16_Witness ==
    /\ ex.stage = "generated" /\ ~ex.gen.raised /\ ex.dir = PublishedTree
    /\ Len(ex.segs) = 3 /\ ex.segs[1].kind = "prose"
    /\ ex.segs[2].tag = TagCss /\ ex.segs[3].tag = TagJs
    /\ ex.gen.dir["index.html"] = <<"b", "{", "}">>
    /\ ex.gen.dir["style.css"] = <<"b", "{", "}">>
    /\ ex.gen.dir["script.js"] = <<"f", "(", ")">>
    /\ ex.dir["index.html"] # ex.gen.dir["index.html"]

\* the fetches of remote attachments the handler has made
Fetches == {k \in 1..Len(calls) : calls[k].cmd = "fetch"}
RemoteAttachments == {k \in 1..Len(task.attachments) : task.attachments[k].url = "https:"}

\* C17 as stated: when the model is called for an accepted Task, of round 1 or
\* of another round, every attachment of the Task is in the working directory,
\* every remote attachment has been fetched once, and no fetch has failed
C17_AttachmentsResolvedBeforeGeneration ==
    pc # "idle" /\ Ran("model") =>
        /\ \A k \in 1..Len(task.attachments) : Exists(wd, task.attachments[k].name)
        /\ Cardinality(Fetches) = Cardinality(RemoteAttachments)
        /\ \A k \in Fetches : ~calls[k].exc

\* no Task is being handled and every notification job has ended
AllTasksFinished == pc = "idle" /\ \A j \in 1..Len(jobs) : jobs[j].pc = "finished"

\* C19 as stated: the directory a Task works in is the one made for it, and
\* once every Task has finished no temporary directory exists
C19_DirectoryDiscardedAfterUse ==
    /\ (loc.tmp # 0 => loc.tmp = nreq /\ loc.tmp \in tmpdirs)
    /\ (AllTasksFinished => tmpdirs = {})

\* the job is in the delivery loop of notify_evaluator or past it
PastWatcher(job) == job.pc \in {"posting", "delivered", "gave_up"}

\* C18: wait_for_pages never raises; after a poll answered by a network error
\* or by another status than 200, made before the maximum wait has elapsed, it
\* goes on polling at least an interval later; it returns true exactly when a
\* poll made before the maximum wait had elapsed was answered 200, and false
\* when the maximum wait has elapsed after a poll that was not; in both cases
\* notify_evaluator goes on to its delivery loop, and what the job does next
\* there is a delivery attempt
C18_WatcherNeverRaises ==
    /\ [](\A j \in 1..Len(jobs) :
            /\ jobs[j].pc # "raised"
            /\ (jobs[j].pc = "waiting" => jobs[j].polled # 200 /\ ~jobs[j].ready)
            /\ (PastWatcher(jobs[j]) => (jobs[j].ready <=> jobs[j].polled = 200))
            /\ (jobs[j].attempts > 0 => PastWatcher(jobs[j])))
    /\ [][\A j \in 1..Len(jobs) :
            /\ (jobs[j].pc = "waiting" /\ jobs'[j] # jobs[j] =>
                  \/ /\ jobs'[j].pc = "waiting"
                     /\ jobs[j].elapsed < max_wait
                     /\ jobs'[j].polled \in {404, -1}
                     /\ jobs'[j].elapsed >= jobs[j].elapsed + interval
                  \/ /\ jobs'[j].pc = "posting" /\ jobs'[j].attempts = 0
                     /\ jobs'[j].ready = (jobs[j].elapsed < max_wait /\ jobs'[j].polled = 200)
                     /\ (~jobs'[j].ready =>
                           jobs[j].elapsed >= max_wait /\ jobs'[j].polled = jobs[j].polled))
            /\ (jobs[j].pc = "posting" /\ jobs'[j] # jobs[j] =>
                  jobs'[j].attempts = jobs[j].attempts + 1)]_vars

C18_Witness ==
    \E j \in 1..Len(jobs) :
        /\ jobs[j].pc = "posting" /\ jobs[j].attempts = 1
        /\ ~jobs[j].ready /\ jobs[j].polled = -1

====
